---- MODULE Spec2Model ----
(***************************************************************************)
(* Model of Clementine's TagReaderClient (src/core/tagreaderclient.cpp):   *)
(* the client-side request wrappers, the BroadcastReply aggregate and the  *)
(* network-statistics aggregation, on top of the worker pool and the       *)
(* single-result Reply they use.                                           *)
(***************************************************************************)
EXTENDS Integers, Sequences, FiniteSets, TLC

\* ---------------------------------------------------------------- bounds
NumWorkers == 2    \* Workers in the pool
MaxRequests == 2   \* correlation ids handed out in a run
MaxSongs == 2      \* songs in one bulk update
MaxMembers == 2    \* member responses merged by the statistics aggregation
MaxEntries == 3    \* statistics entries over all member responses

Workers == 1..NumWorkers
Ids == 1..MaxRequests
Threads == {"main", "other"}

VARIABLES
  wstate,      \* Worker.state: Starting / Ready / Dead
  pending,     \* Worker.pending: the correlation ids outstanding on each Worker
  frames,      \* the number of request frames written to Worker streams so far
  next_id,     \* the pool's correlation id counter
  reply,       \* the Reply objects, by correlation id
  shutdown,    \* the pool has been shut down
  bc,          \* the BroadcastReply object
  call,        \* the blocking caller-facing operation in progress
  netstats     \* GetNetworkStatisticsBlocking's merged response and per-host maps

vars == <<wstate, pending, frames, next_id, reply, shutdown, bc, call, netstats>>

\* ------------------------------------------------------------------ Reply
NoReply ==
  [status |-> "None", success |-> FALSE, resolved |-> 0,
   slot |-> "none", queued |-> FALSE, fired |-> 0, released |-> 0]

NewReply == [NoReply EXCEPT !.status = "Pending"]

is_finished(r) == r.status = "Finished"
is_successful(r) == r.status = "Finished" /\ r.success

\* One resolution of a Reply: the result is stored and Finished(success) is
\* emitted.  A slot connected at that moment whose receiver lives in the
\* emitting thread ("direct") is called from inside the emission; for any
\* other slot an invocation is posted to the receiver's event loop.
Resolve(r, ok) ==
  [r EXCEPT !.status = "Finished", !.success = ok, !.resolved = @ + 1,
            !.queued = (r.slot \notin {"none", "direct"}),
            !.fired = IF r.slot = "direct" THEN @ + 1 ELSE @]

\* QObject::deleteLater: the object is handed to the event loop for deletion;
\* nothing of it is read afterwards.
Deleted(r) ==
  [NoReply EXCEPT !.status = "Deleted", !.resolved = r.resolved, !.fired = r.fired,
                  !.released = r.released + 1]

\* QObject::connect / NewClosure on the Reply's Finished(bool) signal: the
\* slot is invoked for emissions that happen after the connection is made.
Connect(r, slot) == [r EXCEPT !.slot = slot]

\* -------------------------------------------------------------- WorkerPool
Ready == {w \in Workers : wstate[w] = "Ready"}

Min(S) == CHOOSE x \in S : \A y \in S : x <= y

\* Load balancing: least entries in pending, ties broken by worker index.
NextHandler(pend) ==
  LET least == Min({Cardinality(pend[w]) : w \in Ready})
  IN Min({w \in Ready : Cardinality(pend[w]) = least})

Pool == [reply |-> reply, pending |-> pending, frames |-> frames, next_id |-> next_id]

\* Variant of SendTo that hands out the lowest id not in use.
SendTo_Recycle(p, w) ==
  LET free == {i \in Ids : p.reply[i].status # "Pending"}
      id == IF free = {} THEN p.next_id ELSE Min(free)
  IN [p EXCEPT !.next_id = @ + 1,
               !.reply[id] = NewReply,
               !.pending[w] = @ \cup {id},
               !.frames = @ + 1]

\* Dispatch one request to Worker w: fresh id, Reply created and registered,
\* frame written.
SendTo(p, w) ==
  LET id == p.next_id
  IN [p EXCEPT !.next_id = id + 1,
               !.reply[id] = NewReply,
               !.pending[w] = @ \cup {id},
               !.frames = @ + 1]

\* No Ready Worker: the Reply resolves immediately as failed, nothing written.
SendFailed(p) ==
  LET id == p.next_id
  IN [p EXCEPT !.next_id = id + 1,
               !.reply[id] = Resolve(NewReply, FALSE)]

\* Variant of SendMessageWithReply that writes to a Worker that is not Ready.
SendMessageWithReply_AnyWorker(p) ==
  IF Ready = {} THEN SendTo(p, Min(Workers)) ELSE SendTo(p, NextHandler(p.pending))

SendMessageWithReply(p) ==
  IF Ready = {} THEN SendFailed(p) ELSE SendTo(p, NextHandler(p.pending))

RECURSIVE BroadcastTo(_, _)
BroadcastTo(p, ws) ==
  IF ws = {} THEN p ELSE BroadcastTo(SendTo(p, Min(ws)), ws \ {Min(ws)})

\* One send to every Worker that is Ready now, in worker order.
BroadcastMessageWithReply(p) == BroadcastTo(p, Ready)

\* The ids of the Replies a broadcast from pool state p returns.
BroadcastReplies(p) == [i \in 1..Cardinality(Ready) |-> p.next_id + i - 1]

SetPool(p) ==
  /\ next_id' = p.next_id
  /\ frames' = p.frames
  /\ pending' = p.pending
  /\ reply' = p.reply

CanSend(n) == ~shutdown /\ next_id + n - 1 <= MaxRequests

\* Resolve as failed every Reply whose id is in S.
FailAll(rep, S) == [id \in Ids |-> IF id \in S THEN Resolve(rep[id], FALSE) ELSE rep[id]]

NoCall ==
  [op |-> "none", thread |-> "other", asserted |-> FALSE, phase |-> "idle", id |-> 0,
   read |-> FALSE, payload |-> FALSE, ret |-> FALSE]
NoBroadcast == [phase |-> "none", replies |-> <<>>, emitted |-> <<>>, released |-> 0]

\* ---------------------------------------------------------- BroadcastReply
Range(f) == {f[i] : i \in DOMAIN f}

\* Variant of IsFinished that is satisfied by one finished member.
IsFinished_AnyMember(rep, replies_) ==
  LET finished == Cardinality({i \in DOMAIN replies_ : is_finished(rep[replies_[i]])})
  IN finished >= 1

IsFinished(rep, replies_) ==
  LET finished == Cardinality({i \in DOMAIN replies_ : is_finished(rep[replies_[i]])})
  IN finished = Len(replies_)

Successes(rep, replies_) ==
  Cardinality({i \in DOMAIN replies_ : is_successful(rep[replies_[i]])})

\* The body of the closure the BroadcastReply connects to each member:
\* if (IsFinished()) emit Finished(successes == replies_.count()).
Closure(b, rep) ==
  IF IsFinished(rep, b.replies)
    THEN [b EXCEPT !.emitted = Append(@, Successes(rep, b.replies) = Len(b.replies))]
    ELSE b

\* WaitForSignal(this, SIGNAL(Finished(bool))) returns on an emission made
\* while the caller is inside it.
Woken(c, b, rep) ==
  IF IsFinished(rep, b.replies) /\ c.op = "GetNetworkStatistics" /\ c.phase = "waiting"
    THEN [c EXCEPT !.phase = "woken"]
    ELSE c

\* The Replies with ids in S have just been resolved, one after the other,
\* leaving the Replies as rep: the directly connected closures among them ran
\* inside their emissions, each seeing the members resolved up to its own.
Notify(rep, S) ==
  IF \E id \in S : rep[id].slot = "direct"
    THEN /\ bc' = Closure(bc, rep)
         /\ call' = Woken(call, bc, rep)
    ELSE UNCHANGED <<bc, call>>

WorkerStarted(w) ==
  /\ wstate[w] = "Starting"
  /\ wstate' = [wstate EXCEPT ![w] = "Ready"]
  /\ UNCHANGED <<pending, frames, next_id, reply, shutdown, bc, call, netstats>>

WorkerFailedToStart(w) ==
  /\ wstate[w] = "Starting"
  /\ wstate' = [wstate EXCEPT ![w] = "Dead"]
  /\ UNCHANGED <<pending, frames, next_id, reply, shutdown, bc, call, netstats>>

\* Variant of OnDisconnect that fails the Replies of every Worker.
OnDisconnect_FailsEveryWorker(w) ==
  /\ wstate[w] = "Ready"
  /\ wstate' = [wstate EXCEPT ![w] = "Dead"]
  /\ reply' = FailAll(reply, UNION {pending[v] : v \in Workers})
  /\ pending' = [pending EXCEPT ![w] = {}]
  /\ Notify(FailAll(reply, UNION {pending[v] : v \in Workers}), UNION {pending[v] : v \in Workers})
  /\ UNCHANGED <<frames, next_id, shutdown, netstats>>

\* The Worker process died: every Reply in its pending map fails.
OnDisconnect(w) ==
  /\ wstate[w] = "Ready"
  /\ wstate' = [wstate EXCEPT ![w] = "Dead"]
  /\ reply' = FailAll(reply, pending[w])
  /\ pending' = [pending EXCEPT ![w] = {}]
  /\ Notify(FailAll(reply, pending[w]), pending[w])
  /\ UNCHANGED <<frames, next_id, shutdown, netstats>>

\* A replacement process is spawned for a dead Worker.
Respawn(w) ==
  /\ ~shutdown
  /\ wstate[w] = "Dead"
  /\ wstate' = [wstate EXCEPT ![w] = "Starting"]
  /\ UNCHANGED <<pending, frames, next_id, reply, shutdown, bc, call, netstats>>

\* Variant of Demux that resolves the Reply carrying the Envelope's id whether
\* or not the id is in the receiving Worker's pending map.
Demux_ResolvesUnmatched(w, id, ok) ==
  /\ id < next_id
  /\ IF reply[id].status \in {"Pending", "Finished"}
       THEN /\ pending' = [pending EXCEPT ![w] = @ \ {id}]
            /\ reply' = [reply EXCEPT ![id] = Resolve(@, ok)]
            /\ Notify([reply EXCEPT ![id] = Resolve(@, ok)], {id})
       ELSE UNCHANGED <<pending, reply, bc, call>>
  /\ UNCHANGED <<wstate, frames, next_id, shutdown, netstats>>

\* Demultiplexing of one decoded Envelope read from Worker w's stream: a
\* response whose id is in w's pending map resolves the matching Reply; any
\* other Envelope (stale, duplicate, another Worker's id) is discarded.
Demux(w, id, ok) ==
  /\ id < next_id
  /\ IF id \in pending[w]
       THEN /\ pending' = [pending EXCEPT ![w] = @ \ {id}]
            /\ reply' = [reply EXCEPT ![id] = Resolve(@, ok)]
            /\ Notify([reply EXCEPT ![id] = Resolve(@, ok)], {id})
       ELSE UNCHANGED <<pending, reply, bc, call>>
  /\ UNCHANGED <<wstate, frames, next_id, shutdown, netstats>>

\* The status field of a response Envelope: either value when the Envelope
\* resolves a Reply; it is not looked at when the Envelope is discarded.
Outcomes(w, id) == IF id \in pending[w] THEN BOOLEAN ELSE {FALSE}

\* Variant of Shutdown that resolves nothing.
Shutdown_LeavesPending ==
  /\ ~shutdown
  /\ shutdown' = TRUE
  /\ wstate' = [w \in Workers |-> "Dead"]
  /\ UNCHANGED <<reply, pending, frames, next_id, bc, call, netstats>>

Shutdown ==
  /\ ~shutdown
  /\ shutdown' = TRUE
  /\ wstate' = [w \in Workers |-> "Dead"]
  /\ reply' = FailAll(reply, UNION {pending[w] : w \in Workers})
  /\ pending' = [w \in Workers |-> {}]
  /\ Notify(FailAll(reply, UNION {pending[w] : w \in Workers}), UNION {pending[w] : w \in Workers})
  /\ UNCHANGED <<frames, next_id, netstats>>

\* --------------------------------------------------------- TagReaderClient
CallFree == call.phase \in {"idle", "done", "assert_failed"}

\* The asynchronous point-to-point requests: build the message, hand it to
\* SendMessageWithReply, return the Reply.
ReadFile ==
  /\ CanSend(1)
  /\ UNCHANGED <<wstate, shutdown, bc, call, netstats>>
  /\ SetPool(SendMessageWithReply(Pool))

SaveFile ==
  /\ CanSend(1)
  /\ UNCHANGED <<wstate, shutdown, bc, call, netstats>>
  /\ SetPool(SendMessageWithReply(Pool))

UpdateSongStatistics ==
  /\ CanSend(1)
  /\ UNCHANGED <<wstate, shutdown, bc, call, netstats>>
  /\ SetPool(SendMessageWithReply(Pool))

UpdateSongRating ==
  /\ CanSend(1)
  /\ UNCHANGED <<wstate, shutdown, bc, call, netstats>>
  /\ SetPool(SendMessageWithReply(Pool))

IsMediaFile ==
  /\ CanSend(1)
  /\ UNCHANGED <<wstate, shutdown, bc, call, netstats>>
  /\ SetPool(SendMessageWithReply(Pool))

LoadEmbeddedArt ==
  /\ CanSend(1)
  /\ UNCHANGED <<wstate, shutdown, bc, call, netstats>>
  /\ SetPool(SendMessageWithReply(Pool))

ReadCloudFile ==
  /\ CanSend(1)
  /\ UNCHANGED <<wstate, shutdown, bc, call, netstats>>
  /\ SetPool(SendMessageWithReply(Pool))

\* for (song : songs) { reply = Update...(song); connect(reply, Finished,
\* reply, deleteLater); }
RECURSIVE SendAndConnectDeleteLater(_, _)
SendAndConnectDeleteLater(p, n) ==
  IF n = 0 THEN p
  ELSE LET q == SendMessageWithReply(p)
           id == p.next_id
       IN SendAndConnectDeleteLater(
            [q EXCEPT !.reply[id] = Connect(@, "deleteLater")], n - 1)

UpdateSongsStatistics(n) ==
  /\ CanSend(n)
  /\ SetPool(SendAndConnectDeleteLater(Pool, n))
  /\ UNCHANGED <<wstate, shutdown, bc, call, netstats>>

UpdateSongsRating(n) ==
  /\ CanSend(n)
  /\ SetPool(SendAndConnectDeleteLater(Pool, n))
  /\ UNCHANGED <<wstate, shutdown, bc, call, netstats>>

\* The deleteLater slot connected to a Reply's Finished signal runs.
DeleteLaterRun(id) ==
  /\ reply[id].slot = "deleteLater"
  /\ reply[id].queued
  /\ reply' = [reply EXCEPT ![id] = Deleted([@ EXCEPT !.fired = @ + 1])]
  /\ UNCHANGED <<wstate, pending, frames, next_id, shutdown, bc, call, netstats>>

\* ------------------------------------------------- BroadcastReply, built
\* BroadcastReply::BroadcastReply: one closure per member, connected to the
\* member's Finished signal.  The closure lives in the constructing thread:
\* "direct" when that is the thread the members are resolved on, "closure"
\* (delivered through the constructing thread's event loop) otherwise.
ConnectClosures(rep, replies_, slot) ==
  [id \in Ids |-> IF id \in Range(replies_) THEN Connect(rep[id], slot) ELSE rep[id]]

\* Variant of Broadcast that hands the request to one Worker only.
Broadcast_ToOneWorker(thread) ==
  LET p == SendMessageWithReply(Pool)
      replies == <<next_id>>
  IN IF thread = "main"
       THEN /\ SetPool([p EXCEPT !.reply = ConnectClosures(p.reply, replies, "direct")])
            /\ bc' = [NoBroadcast EXCEPT !.phase = "built", !.replies = replies]
       ELSE /\ SetPool(p)
            /\ bc' = [NoBroadcast EXCEPT !.phase = "sent", !.replies = replies]

\* GetNetworkStatistics, first statement: the broadcast itself.
Broadcast(thread) ==
  LET p == BroadcastMessageWithReply(Pool)
      replies == BroadcastReplies(Pool)
  IN IF thread = "main"
       THEN \* nothing else runs on the pool's thread before the constructor
            /\ SetPool([p EXCEPT !.reply = ConnectClosures(p.reply, replies, "direct")])
            /\ bc' = [NoBroadcast EXCEPT !.phase = "built", !.replies = replies]
       ELSE /\ SetPool(p)
            /\ bc' = [NoBroadcast EXCEPT !.phase = "sent", !.replies = replies]

GetNetworkStatistics(thread) ==
  /\ bc.phase = "none"
  /\ CanSend(Cardinality(Ready))
  /\ Broadcast(thread)
  /\ UNCHANGED <<wstate, shutdown, call, netstats>>

\* Variant of BroadcastReplyConstruct that keeps only the members still
\* outstanding when the constructor runs.
BroadcastReplyConstruct_DropsFinished ==
  /\ bc.phase = "sent"
  /\ bc' = [bc EXCEPT !.phase = "built",
                      !.replies = SelectSeq(@, LAMBDA id : ~is_finished(reply[id]))]
  /\ reply' = ConnectClosures(reply, bc.replies, "closure")
  /\ call' = IF call.phase = "constructing" THEN [call EXCEPT !.phase = "waiting"] ELSE call
  /\ UNCHANGED <<wstate, pending, frames, next_id, shutdown, netstats>>

\* new BroadcastReply(message, replies), run by a caller whose thread is not
\* the pool's: the members may have resolved in the meantime.
BroadcastReplyConstruct ==
  /\ bc.phase = "sent"
  /\ bc' = [bc EXCEPT !.phase = "built"]
  /\ reply' = ConnectClosures(reply, bc.replies, "closure")
  /\ call' = IF call.phase = "constructing" THEN [call EXCEPT !.phase = "waiting"] ELSE call
  /\ UNCHANGED <<wstate, pending, frames, next_id, shutdown, netstats>>

\* The closure of member id, built in a thread other than the one the member
\* was resolved on, runs: its invocation is delivered by the event loop of the
\* thread that built the BroadcastReply, at once or after other events.
ClosureRun(id) ==
  /\ reply[id].slot = "closure"
  /\ reply[id].queued
  /\ reply' = [reply EXCEPT ![id].queued = FALSE, ![id].fired = @ + 1]
  /\ bc' = Closure(bc, reply)
  /\ call' = Woken(call, bc, reply)
  /\ UNCHANGED <<wstate, pending, frames, next_id, shutdown, netstats>>

\* ------------------------------------------- network statistics aggregation
Url(scheme, host, path) == <<scheme, "//", host, "/", path>>
UrlPort(scheme, host, port, path) == <<scheme, "//", host, ":", port, "/", path>>
Entry(url, bytes) == [url |-> url, bytes_received |-> bytes]

PathStart == {"/", "?", "#"}

\* QUrl::authority(): what stands between "//" and the start of the path.
authority(url) ==
  LET marks == {i \in 1..Len(url) : url[i] = "//"}
  IN IF marks = {} THEN <<>>
     ELSE LET s == Min(marks)
              ends == {j \in (s + 1)..Len(url) : url[j] \in PathStart}
              e == IF ends = {} THEN Len(url) + 1 ELSE Min(ends)
          IN SubSeq(url, s + 1, e - 1)

EmptyMap == [h \in {} |-> 0]
Insert(m, k, v) == [x \in DOMAIN m \cup {k} |-> IF x = k THEN v ELSE m[x]]

\* response.MergeFrom(r->message().network_statistics_response()) for every
\* member in order: the repeated entry field is concatenated.
RECURSIVE MergeFrom(_)
MergeFrom(messages) ==
  IF messages = <<>> THEN <<>> ELSE Head(messages) \o MergeFrom(Tail(messages))

RECURSIVE AggregateFrom(_, _, _)
\* Variant of AggregateFrom that assigns the bytes instead of adding them.
AggregateFrom_Assign(entries, requests_by_host, bytes_received_by_host) ==
  IF entries = <<>>
    THEN [requests_by_host |-> requests_by_host,
          bytes_received_by_host |-> bytes_received_by_host]
    ELSE LET entry == Head(entries)
             host == authority(entry.url)
         IN AggregateFrom(Tail(entries),
              IF host \in DOMAIN requests_by_host
                THEN [requests_by_host EXCEPT ![host] = @ + 1]
                ELSE Insert(requests_by_host, host, 1),
              Insert(bytes_received_by_host, host, entry.bytes_received))

AggregateFrom(entries, requests_by_host, bytes_received_by_host) ==
  IF entries = <<>>
    THEN [requests_by_host |-> requests_by_host,
          bytes_received_by_host |-> bytes_received_by_host]
    ELSE LET entry == Head(entries)
             host == authority(entry.url)
         IN AggregateFrom(Tail(entries),
              IF host \in DOMAIN requests_by_host
                THEN [requests_by_host EXCEPT ![host] = @ + 1]
                ELSE Insert(requests_by_host, host, 1),
              IF host \in DOMAIN bytes_received_by_host
                THEN [bytes_received_by_host EXCEPT ![host] = @ + entry.bytes_received]
                ELSE Insert(bytes_received_by_host, host, entry.bytes_received))

AggregateStats(messages) == AggregateFrom(MergeFrom(messages), EmptyMap, EmptyMap)

NoStats == [messages |-> <<>>, done |-> FALSE,
            requests_by_host |-> EmptyMap, bytes_received_by_host |-> EmptyMap]

\* The statistics a Worker process reports.
WorkerStats ==
  <<Entry(Url("http:", "a.com", "x"), 100), Entry(Url("http:", "b.com", "z"), 10)>>

\* r->message().network_statistics_response() of a member Reply: empty
\* unless a response was stored in it.
Message(r) == IF is_successful(r) THEN WorkerStats ELSE <<>>

StatsOf(messages) ==
  LET agg == AggregateStats(messages)
  IN [messages |-> messages, done |-> TRUE,
      requests_by_host |-> agg.requests_by_host,
      bytes_received_by_host |-> agg.bytes_received_by_host]

\* GetNetworkStatisticsBlocking up to the wait: no assertion on the thread.
GetNetworkStatisticsBlocking(thread) ==
  /\ bc.phase = "none"
  /\ CallFree
  /\ CanSend(Cardinality(Ready))
  /\ Broadcast(thread)
  /\ call' = [NoCall EXCEPT !.op = "GetNetworkStatistics", !.thread = thread,
                            !.phase = IF thread = "main" THEN "waiting" ELSE "constructing"]
  /\ UNCHANGED <<wstate, shutdown, netstats>>

\* WaitForFinished has returned: deleteLater, merge the members' responses,
\* aggregate per host.
GetNetworkStatisticsBlockingReturn ==
  /\ call.op = "GetNetworkStatistics"
  /\ call.phase = "woken"
  /\ call' = [call EXCEPT !.phase = "done"]
  /\ bc' = [bc EXCEPT !.released = @ + 1]
  /\ netstats' = StatsOf([i \in DOMAIN bc.replies |-> Message(reply[bc.replies[i]])])
  /\ UNCHANGED <<wstate, pending, frames, next_id, reply, shutdown>>

\* -------------------------------------------------------- blocking wrappers
\* Q_ASSERT(QThread::currentThread() != thread()); then the asynchronous
\* form; then WaitForFinished on the Reply.  A caller on the client's own
\* thread fails the assertion and goes no further.
Blocking(thread) ==
  /\ CallFree
  /\ CanSend(1)
  /\ IF thread = "main"
       THEN /\ call' = [NoCall EXCEPT !.op = "PointToPoint", !.thread = thread,
                                      !.asserted = TRUE, !.phase = "assert_failed"]
            /\ UNCHANGED <<reply, pending, frames, next_id>>
       ELSE /\ call' = [NoCall EXCEPT !.op = "PointToPoint", !.thread = thread,
                                      !.asserted = TRUE, !.phase = "waiting",
                                      !.id = next_id]
            /\ SetPool(SendMessageWithReply(Pool))
  /\ UNCHANGED <<wstate, shutdown, bc, netstats>>

ReadFileBlocking(thread) == Blocking(thread)
SaveFileBlocking(thread) == Blocking(thread)
UpdateSongStatisticsBlocking(thread) == Blocking(thread)
UpdateSongRatingBlocking(thread) == Blocking(thread)
IsMediaFileBlocking(thread) == Blocking(thread)
LoadEmbeddedArtBlocking(thread) == Blocking(thread)

\* if (reply->WaitForFinished()) { ret = <the response's field>; }: what a
\* wrapper returns on a Reply r whose response carries payload.  The four
\* bool wrappers return ret; ReadFileBlocking initialises the caller's song
\* and LoadEmbeddedArtBlocking loads the image exactly when read is set.
Returned(c, r, payload) ==
  IF is_successful(r)
    THEN [c EXCEPT !.read = TRUE, !.payload = payload, !.ret = payload]
    ELSE c

\* Variant of BlockingReturn that is woken by a successful resolution only.
BlockingReturn_OnSuccessOnly ==
  /\ call.op = "PointToPoint"
  /\ call.phase = "waiting"
  /\ is_successful(reply[call.id])
  /\ \E payload \in BOOLEAN :
       call' = [Returned(call, reply[call.id], payload) EXCEPT !.phase = "done", !.id = 0]
  /\ reply' = [reply EXCEPT ![call.id] = Deleted(@)]
  /\ UNCHANGED <<wstate, pending, frames, next_id, shutdown, bc, netstats>>

\* Variant of BlockingReturn that reads the response whatever the outcome.
BlockingReturn_ReadsAnyResponse ==
  /\ call.op = "PointToPoint"
  /\ call.phase = "waiting"
  /\ is_finished(reply[call.id])
  /\ \E payload \in BOOLEAN :
       call' = [call EXCEPT !.read = TRUE, !.payload = payload, !.ret = payload,
                            !.phase = "done", !.id = 0]
  /\ reply' = [reply EXCEPT ![call.id] = Deleted(@)]
  /\ UNCHANGED <<wstate, pending, frames, next_id, shutdown, bc, netstats>>

\* reply->WaitForFinished() returns once the Reply is resolved, with the
\* Reply's success; the wrapper reads the response if it is true and calls
\* reply->deleteLater().  The response's own field is whatever the Worker put
\* in it.
BlockingReturn ==
  /\ call.op = "PointToPoint"
  /\ call.phase = "waiting"
  /\ is_finished(reply[call.id])
  /\ \E payload \in BOOLEAN :
       call' = [Returned(call, reply[call.id], payload) EXCEPT !.phase = "done", !.id = 0]
  /\ reply' = [reply EXCEPT ![call.id] = Deleted(@)]
  /\ UNCHANGED <<wstate, pending, frames, next_id, shutdown, bc, netstats>>

Init ==
  /\ wstate = [w \in Workers |-> "Starting"]
  /\ pending = [w \in Workers |-> {}]
  /\ frames = 0
  /\ next_id = 1
  /\ reply = [id \in Ids |-> NoReply]
  /\ shutdown = FALSE
  /\ bc = NoBroadcast
  /\ call = NoCall
  /\ netstats = NoStats

Next ==
  \/ \E w \in Workers : WorkerStarted(w)
  \/ \E w \in Workers : WorkerFailedToStart(w)
  \/ \E w \in Workers : OnDisconnect(w)
  \/ \E w \in Workers : Respawn(w)
  \/ \E w \in Workers, id \in Ids : \E ok \in Outcomes(w, id) : Demux(w, id, ok)
  \/ Shutdown
  \/ ReadFile
  \/ SaveFile
  \/ UpdateSongStatistics
  \/ UpdateSongRating
  \/ IsMediaFile
  \/ LoadEmbeddedArt
  \/ ReadCloudFile
  \/ \E n \in 1..MaxSongs : UpdateSongsStatistics(n)
  \/ \E n \in 1..MaxSongs : UpdateSongsRating(n)
  \/ \E id \in Ids : DeleteLaterRun(id)
  \/ \E t \in Threads : GetNetworkStatistics(t)
  \/ BroadcastReplyConstruct
  \/ \E id \in Ids : ClosureRun(id)
  \/ \E t \in Threads : GetNetworkStatisticsBlocking(t)
  \/ GetNetworkStatisticsBlockingReturn
  \/ \E t \in Threads : ReadFileBlocking(t)
  \/ \E t \in Threads : SaveFileBlocking(t)
  \/ \E t \in Threads : UpdateSongStatisticsBlocking(t)
  \/ \E t \in Threads : UpdateSongRatingBlocking(t)
  \/ \E t \in Threads : IsMediaFileBlocking(t)
  \/ \E t \in Threads : LoadEmbeddedArtBlocking(t)
  \/ BlockingReturn

Spec == Init /\ [][Next]_vars

\* The pool's event loop handles every response it is handed, a Worker answers
\* every request outstanding on it unless it dies first, and a blocked caller
\* is resumed once its Reply is resolved.
Fairness ==
  /\ \A w \in Workers, id \in Ids : WF_vars(\E ok \in BOOLEAN : Demux(w, id, ok))
  /\ WF_vars(BlockingReturn)

FairSpec == Spec /\ Fairness

\* The point-to-point requests alone (asynchronous and blocking forms) with
\* the pool's events.
NextRequests ==
  \/ \E w \in Workers : WorkerStarted(w)
  \/ \E w \in Workers : WorkerFailedToStart(w)
  \/ \E w \in Workers : OnDisconnect(w)
  \/ \E w \in Workers : Respawn(w)
  \/ \E w \in Workers, id \in Ids : \E ok \in Outcomes(w, id) : Demux(w, id, ok)
  \/ Shutdown
  \/ ReadFile
  \/ SaveFile
  \/ UpdateSongStatistics
  \/ UpdateSongRating
  \/ IsMediaFile
  \/ LoadEmbeddedArt
  \/ ReadCloudFile
  \/ \E t \in Threads : ReadFileBlocking(t)
  \/ \E t \in Threads : SaveFileBlocking(t)
  \/ \E t \in Threads : UpdateSongStatisticsBlocking(t)
  \/ \E t \in Threads : UpdateSongRatingBlocking(t)
  \/ \E t \in Threads : IsMediaFileBlocking(t)
  \/ \E t \in Threads : LoadEmbeddedArtBlocking(t)
  \/ BlockingReturn

FairRequests == Init /\ [][NextRequests]_vars /\ Fairness

\* Every request kind, asynchronous and blocking, and the broadcast, with the
\* pool's events; the bulk updates, which are loops over UpdateSongStatistics
\* and UpdateSongRating, are left out.
NextDispatch ==
  \/ \E w \in Workers : WorkerStarted(w)
  \/ \E w \in Workers : WorkerFailedToStart(w)
  \/ \E w \in Workers : OnDisconnect(w)
  \/ \E w \in Workers : Respawn(w)
  \/ \E w \in Workers, id \in Ids : \E ok \in Outcomes(w, id) : Demux(w, id, ok)
  \/ Shutdown
  \/ ReadFile
  \/ SaveFile
  \/ UpdateSongStatistics
  \/ UpdateSongRating
  \/ IsMediaFile
  \/ LoadEmbeddedArt
  \/ ReadCloudFile
  \/ \E t \in Threads : GetNetworkStatistics(t)
  \/ BroadcastReplyConstruct
  \/ \E id \in Ids : ClosureRun(id)
  \/ \E t \in Threads : GetNetworkStatisticsBlocking(t)
  \/ GetNetworkStatisticsBlockingReturn
  \/ \E t \in Threads : ReadFileBlocking(t)
  \/ \E t \in Threads : SaveFileBlocking(t)
  \/ \E t \in Threads : UpdateSongStatisticsBlocking(t)
  \/ \E t \in Threads : UpdateSongRatingBlocking(t)
  \/ \E t \in Threads : IsMediaFileBlocking(t)
  \/ \E t \in Threads : LoadEmbeddedArtBlocking(t)
  \/ BlockingReturn

SpecDispatch == Init /\ [][NextDispatch]_vars

\* ---------------------------------------- statistics aggregation on its own
Entries ==
  { Entry(Url("http:", "a.com", "x"), 100),
    Entry(Url("http:", "a.com", "y"), 50),
    Entry(Url("http:", "b.com", "z"), 10),
    Entry(<<"http:", "//", "a.com", ":", "8080">>, 10),
    Entry(<<"file:", "/", "x">>, 50) }

SeqsUpTo(n, S) == UNION {[1..k -> S] : k \in 0..n}

\* Ways of cutting a list of len entries into n consecutive member responses.
Cuts(n, len) ==
  {c \in [0..n -> 0..len] :
     /\ c[0] = 0
     /\ c[n] = len
     /\ \A i \in 1..n : c[i - 1] <= c[i]}

StatsInputs ==
  UNION {{[i \in 1..n |-> SubSeq(l, c[i - 1] + 1, c[i])] : c \in Cuts(n, Len(l))} :
           l \in SeqsUpTo(MaxEntries, Entries), n \in 0..MaxMembers}

InitStats ==
  /\ wstate = [w \in Workers |-> "Starting"]
  /\ pending = [w \in Workers |-> {}]
  /\ frames = 0
  /\ next_id = 1
  /\ reply = [id \in Ids |-> NoReply]
  /\ shutdown = FALSE
  /\ bc = NoBroadcast
  /\ call = NoCall
  /\ netstats \in {[NoStats EXCEPT !.messages = m] : m \in StatsInputs}

\* Lines 197-218 of GetNetworkStatisticsBlocking on given member responses.
MergeAndAggregate ==
  /\ ~netstats.done
  /\ netstats' = StatsOf(netstats.messages)
  /\ UNCHANGED <<wstate, pending, frames, next_id, reply, shutdown, bc, call>>

NextStats == MergeAndAggregate

SpecStats == InitStats /\ [][NextStats]_vars

\* ================================================================== claims
Members == Range(bc.replies)
Finished(id) == reply[id].status \in {"Finished", "Deleted"}

\* C1: a BroadcastReply over N >= 1 members signals Finished only when every
\* member is Finished, and the value it signals is the AND of the members'
\* successes.
C1_BroadcastFinishedIsAnd ==
  \A k \in DOMAIN bc.emitted :
    /\ \A id \in Members : is_finished(reply[id])
    /\ bc.emitted[k] = (\A id \in Members : reply[id].success)

C1_Witness ==
  /\ Len(bc.replies) = 2
  /\ Len(bc.emitted) >= 1
  /\ \E id \in Members : reply[id].success
  /\ \E id \in Members : ~reply[id].success
  /\ bc.emitted[1] = FALSE

\* C2: a BroadcastReply built over an empty member list has signalled Finished
\* with success = TRUE as soon as it exists, and nobody is left waiting on it.
C2_EmptyBroadcastFinished ==
  (bc.phase = "built" /\ bc.replies = <<>>) =>
    /\ Len(bc.emitted) >= 1
    /\ bc.emitted[1] = TRUE
    /\ ~(call.op = "GetNetworkStatistics" /\ call.phase = "waiting")

\* C3: every Reply handed out is resolved exactly once: it is never resolved a
\* second time, never goes back to Pending, a Pending Reply is eventually
\* Finished, and a blocking wrapper waiting on its Reply eventually returns.
C3_ReplyResolvedExactlyOnce ==
  /\ [](\A id \in Ids : reply[id].resolved <= 1)
  /\ [][\A id \in Ids : Finished(id) => Finished(id)']_vars
  /\ \A id \in Ids : (reply[id].status = "Pending") ~> Finished(id)
  /\ (call.op = "PointToPoint" /\ call.phase = "waiting") ~> (call.phase = "done")

C3_Witness ==
  /\ call.op = "PointToPoint"
  /\ call.phase = "done"
  /\ shutdown
  /\ \E id \in Ids : reply[id].status = "Deleted" /\ reply[id].resolved = 1

\* C4: the step in which a Worker dies resolves as failed exactly the Replies
\* in its pending map, writes no frame (nothing is resent), enters no id in any
\* pending map, and leaves every other Reply and every other Worker's pending
\* map as they were.
C4_DeathFailsExactlyItsPending ==
  [][\A w \in Workers :
       (wstate[w] = "Ready" /\ wstate'[w] = "Dead" /\ ~shutdown') =>
         /\ \A id \in pending[w] :
              /\ reply[id].status = "Pending"
              /\ is_finished(reply'[id])
              /\ ~reply'[id].success
         /\ \A id \in Ids \ pending[w] : reply'[id] = reply[id]
         /\ pending'[w] = {}
         /\ \A v \in Workers \ {w} : pending'[v] = pending[v]
         /\ frames' = frames]_vars

C4_Witness ==
  /\ ~shutdown
  /\ \E w \in Workers :
       /\ wstate[w] = "Dead"
       /\ pending[w] = {}
       /\ \E v \in Workers \ {w} : wstate[v] = "Ready" /\ pending[v] # {}
  /\ \E id \in Ids : is_finished(reply[id]) /\ ~reply[id].success
  /\ frames = 2

C6_NoReadyWorkerFailsAtOnce ==
  [][(Ready = {} /\ next_id' > next_id) =>
       /\ \A id \in next_id..(next_id' - 1) :
            is_finished(reply'[id]) /\ ~reply'[id].success
       /\ frames' = frames
       /\ pending' = pending]_vars

C6_Witness ==
  /\ next_id = 2
  /\ frames = 0
  /\ is_finished(reply[1])
  /\ ~reply[1].success
  /\ \A w \in Workers : pending[w] = {}

\* C7: whenever a blocking operation has been entered, the assertion that the
\* caller is not on the client's own thread has been evaluated, and no caller
\* on that thread is ever inside a blocking wait.
C7_BlockingAsserts ==
  call.phase # "idle" =>
    /\ call.asserted
    /\ ~(call.phase = "waiting" /\ call.thread = "main")

\* C8: no completion is missed: a Reply that is Finished and has a callback
\* registered has had that callback invoked, or its invocation is on its way,
\* whether the callback was registered before or after the resolution.
C8_NoMissedCompletion ==
  \A id \in Ids :
    (is_finished(reply[id]) /\ reply[id].slot # "none") =>
      (reply[id].queued \/ reply[id].fired >= 1)

\* The merged entries, and per-authority count and sum, computed from the
\* set of entry positions rather than by the loop.
RECURSIVE Flatten(_)
Flatten(messages) ==
  IF messages = <<>> THEN <<>> ELSE Flatten(SubSeq(messages, 1, Len(messages) - 1)) \o messages[Len(messages)]

RECURSIVE SumBytes(_, _)
SumBytes(entries, I) ==
  IF I = {} THEN 0
  ELSE LET i == CHOOSE x \in I : TRUE
       IN entries[i].bytes_received + SumBytes(entries, I \ {i})

WithAuthority(entries, h) == {i \in DOMAIN entries : authority(entries[i].url) = h}

\* C9: the per-host maps have exactly the authorities of the merged entries as
\* keys; each key's request count is the number of entries with that authority
\* and its byte count is the sum of their bytes_received.  Both right-hand
\* sides are functions of the multiset of entries, so the result does not
\* depend on the order of members or entries.
C9_PerHostCountsAndSums ==
  netstats.done =>
    LET entries == Flatten(netstats.messages)
        hosts == {authority(entries[i].url) : i \in DOMAIN entries}
    IN /\ DOMAIN netstats.requests_by_host = hosts
       /\ DOMAIN netstats.bytes_received_by_host = hosts
       /\ \A h \in hosts :
            /\ netstats.requests_by_host[h] = Cardinality(WithAuthority(entries, h))
            /\ netstats.bytes_received_by_host[h] = SumBytes(entries, WithAuthority(entries, h))

C9_Witness ==
  /\ netstats.done
  /\ netstats.messages =
       << <<Entry(Url("http:", "a.com", "x"), 100), Entry(Url("http:", "a.com", "y"), 50)>>,
          <<Entry(Url("http:", "b.com", "z"), 10)>> >>
  /\ DOMAIN netstats.requests_by_host = {<<"a.com">>, <<"b.com">>}
  /\ netstats.requests_by_host[<<"a.com">>] = 2
  /\ netstats.bytes_received_by_host[<<"a.com">>] = 150
  /\ netstats.requests_by_host[<<"b.com">>] = 1
  /\ netstats.bytes_received_by_host[<<"b.com">>] = 10

PendingMapsConsistent ==
  /\ \A w, v \in Workers : w # v => pending[w] \cap pending[v] = {}
  /\ \A id \in Ids :
       (\E w \in Workers : id \in pending[w]) <=> reply[id].status = "Pending"

\* C10: an id is in at most one Worker's pending map, the ids in the pending
\* maps are those of the Pending Replies, and an id is handed to a request only
\* if no Reply, resolved or not, has carried it before.
C10_IdsNeverReused ==
  /\ PendingMapsConsistent
  /\ [][/\ PendingMapsConsistent'
        /\ next_id' >= next_id
        /\ \A id \in Ids :
             reply[id].status # "None" =>
               /\ \A w \in Workers : id \notin pending'[w] \ pending[w]
               /\ reply'[id].status # "None"
               /\ reply'[id].resolved >= reply[id].resolved]_vars

C10_Witness ==
  /\ next_id = 3
  /\ Finished(1)
  /\ \E w \in Workers : 2 \in pending[w]

\* C11: an Envelope read from a Worker whose pending map does not hold its id
\* changes no Reply and no pending map; a Reply is resolved only in a step
\* that takes its id out of a pending map that held it, a pending map loses an
\* id only by resolving its Reply, and a Finished Reply keeps its result and
\* is not resolved again.
C11_UnmatchedEnvelopeDiscarded ==
  [][/\ \/ UNCHANGED <<reply, pending>>
        \/ \A w \in Workers, id \in Ids :
             id \notin pending[w] => ~(\E ok \in BOOLEAN : Demux(w, id, ok))
     /\ \A id \in Ids :
          /\ (reply[id].status # "None" /\ reply'[id].resolved > reply[id].resolved) =>
               /\ reply[id].status = "Pending"
               /\ \E w \in Workers : id \in pending[w] \ pending'[w]
          /\ (is_finished(reply[id]) /\ is_finished(reply'[id])) =>
               /\ reply'[id].success = reply[id].success
               /\ reply'[id].resolved = reply[id].resolved
          /\ \A w \in Workers : id \in pending[w] \ pending'[w] => is_finished(reply'[id])]_vars

\* A response has resolved Reply 1; a duplicate of it, or the response to
\* Reply 2 arriving from the other Worker, finds no entry.
C11_Witness ==
  /\ is_successful(reply[1])
  /\ reply[1].resolved = 1
  /\ \A w \in Workers : 1 \notin pending[w]
  /\ \E w \in Workers :
       /\ 2 \in pending[w]
       /\ \E v \in Workers \ {w} : wstate[v] = "Ready" /\ 2 \notin pending[v]

\* C12: the step that makes a broadcast gives the BroadcastReply one member
\* per Worker that is Ready in that step, each a new Reply entered in that
\* Worker's pending map, and nothing for any other Worker; from then on no
\* step changes the member list.
C12_MembersFixedAtConstruction ==
  [][/\ (bc.phase = "none" /\ bc'.phase # "none") =>
          /\ Len(bc'.replies) = Cardinality(Ready)
          /\ Range(bc'.replies) = next_id..(next_id' - 1)
          /\ \A w \in Ready :
               /\ Cardinality(pending'[w] \ pending[w]) = 1
               /\ pending'[w] \ pending[w] \subseteq Range(bc'.replies)
          /\ \A w \in Workers \ Ready : pending'[w] = pending[w]
     /\ bc.phase # "none" => bc'.replies = bc.replies]_vars

\* A broadcast made while one Worker was Ready; its member has resolved and
\* the other Worker has become Ready since.
C12_Witness ==
  /\ bc.phase = "built"
  /\ Len(bc.replies) = 1
  /\ is_finished(reply[bc.replies[1]])
  /\ Cardinality(Ready) = 2

\* One request dispatched point-to-point: one new Reply; one frame, to one
\* Ready Worker, whose pending map gains the new id, or no frame at all when
\* no Worker is Ready; no BroadcastReply is made.
PointToPointStep ==
  /\ next_id' = next_id + 1
  /\ reply[next_id].status = "None"
  /\ reply'[next_id].status # "None"
  /\ bc' = bc
  /\ IF Ready = {}
       THEN frames' = frames /\ pending' = pending
       ELSE /\ frames' = frames + 1
            /\ \E w \in Ready : pending' = [pending EXCEPT ![w] = @ \cup {next_id}]

\* One request dispatched by broadcast: one new Reply and one frame for each
\* Ready Worker, none for any other, all of them members of the BroadcastReply.
BroadcastStep ==
  /\ next_id' = next_id + Cardinality(Ready)
  /\ frames' = frames + Cardinality(Ready)
  /\ \A w \in Ready : Cardinality(pending'[w] \ pending[w]) = 1
  /\ \A w \in Workers \ Ready : pending'[w] = pending[w]
  /\ bc'.phase # "none"
  /\ Range(bc'.replies) = next_id..(next_id' - 1)

\* C13: every step of GetNetworkStatistics (asynchronous or blocking form) is
\* a broadcast to every Ready Worker, and every step in which one of the other
\* seven request kinds is issued (asynchronous form, or blocking form past its
\* assertion) is a point-to-point dispatch producing exactly one Reply.
C13_DispatchModeByKind ==
  [][/\ (\E t \in Threads : GetNetworkStatistics(t) \/ GetNetworkStatisticsBlocking(t))
          => BroadcastStep
     /\ (\/ ReadFile \/ SaveFile \/ UpdateSongStatistics \/ UpdateSongRating
         \/ IsMediaFile \/ LoadEmbeddedArt \/ ReadCloudFile
         \/ ReadFileBlocking("other") \/ SaveFileBlocking("other")
         \/ UpdateSongStatisticsBlocking("other") \/ UpdateSongRatingBlocking("other")
         \/ IsMediaFileBlocking("other") \/ LoadEmbeddedArtBlocking("other"))
          => PointToPointStep]_vars

\* A network-statistics query made with both Workers Ready: one request on
\* each of them.
C13_Witness ==
  /\ bc.replies = <<1, 2>>
  /\ frames = 2
  /\ \A w \in Workers : Cardinality(pending[w]) = 1

\* C14: whatever the order in which the members resolve and their closures
\* run, the BroadcastReply has signalled Finished at most once.
C14_FinishedSignalledOnce == Len(bc.emitted) <= 1

\* C15: a caller blocked in WaitForFinished on a BroadcastReply whose members
\* (one or more) are all Finished is about to return: the invocation of a
\* member's closure, which signals Finished and ends the wait, is on its way.
C15_BroadcastWaitReturns ==
  (/\ call.op = "GetNetworkStatistics"
   /\ call.phase = "waiting"
   /\ bc.replies # <<>>
   /\ \A id \in Members : is_finished(reply[id]))
    => \E id \in Members : reply[id].queued

\* C16: when a blocking point-to-point wrapper returns, the response was read
\* exactly if its Reply finished successfully, and the value returned is true
\* only if the Reply finished successfully and the response's own field is
\* true; on a failed Reply nothing is read and the result is the default
\* (false, song untouched, empty image).
C16_BlockingFailureIsDefault ==
  [][(call.op = "PointToPoint" /\ call.phase = "waiting" /\ call'.phase = "done") =>
       LET r == reply[call.id]
       IN /\ is_finished(r)
          /\ call'.read = is_successful(r)
          /\ call'.ret = (is_successful(r) /\ call'.payload)
          /\ ~is_successful(r) => (~call'.read /\ ~call'.ret /\ ~call'.payload)]_vars

\* A blocking wrapper called with no Worker Ready has returned its default.
C16_Witness ==
  /\ call.op = "PointToPoint"
  /\ call.phase = "done"
  /\ ~call.read
  /\ ~call.ret
  /\ frames = 0
  /\ reply[1].status = "Deleted"

\* C17: every Reply of a bulk update is released exactly once after it is
\* Finished: none is released twice or while Pending, and one that is Finished
\* and not yet released has its deleteLater on its way.
C17_BulkRepliesReleasedOnce ==
  \A id \in Ids :
    /\ reply[id].released <= 1
    /\ reply[id].status = "Pending" => reply[id].released = 0
    /\ (reply[id].slot = "deleteLater" /\ is_finished(reply[id])) => reply[id].queued
====
